---- MODULE Spec2Model ----
(***************************************************************************)
(* A model of the blockchain client (c4_client): storage, block import,    *)
(* fork choice, the transaction pool and block authoring, together with    *)
(* the accounted-currency state machine and the consensus engines the      *)
(* client is instantiated with.                                            *)
(***************************************************************************)
EXTENDS Integers, Sequences, FiniteSets, TLC

\* ------------------------------------------------------------------ bounds
MaxHeight == 2
MaxBlocks == 3
MaxPool == 1
MaxAuthorPool == 11
MaxDigest == 1
MaxHooks == 2
MaxImported == 3
MaxQueue == 3
MaxSealHeight == 3
U64Max == 15

\* ------------------------------------------------------- program constants
AuthorCap == 10
MinimumPriority == 4

\* ------------------------------------------------------------------ values
None == <<"none">>
Some(x) == <<"some", x>>

\* hash(&x): an injective function of what is fed to the hasher; the tag
\* keeps hashes of values of different types apart.
Raw(n) == <<"raw", n>>
HashState(s) == <<"state", s>>
HashBody(body) == <<"body", body>>
HashHeader(header) == <<"header", header>>
HashBlock(block) == <<"block", block.header, block.body>>

MintAlice == [type |-> "Mint", minter |-> "Alice", amount |-> 1]
BurnAlice == [type |-> "Burn", burner |-> "Alice", amount |-> 1]

Transactions == {MintAlice, BurnAlice}
Bodies == {<<>>, <<MintAlice>>}
Digests == 0..MaxDigest
ImportBodies == {<<>>, <<MintAlice>>}
ImportDigests == {0, 1}

\* ------------------------------------------------ accounted currency (c1)
DefaultState == <<>>

\* balances are u64: U64Max stands for 2^64 - 1; an addition that passes it
\* aborts in a build with overflow checks and wraps in one without
Wrap(n) == n % (U64Max + 1)

Put(s, u, v) == [x \in (DOMAIN s) \cup {u} |-> IF x = u THEN v ELSE s[x]]
Del(s, u) == [x \in (DOMAIN s) \ {u} |-> s[x]]

\* next_state minting without the check of the amount
next_state_mint_unchecked(s, t) ==
  CASE t.type = "Mint" ->
         IF t.minter \in DOMAIN s
         THEN Put(s, t.minter, Wrap(s[t.minter] + t.amount))
         ELSE Put(s, t.minter, t.amount)
    [] t.type = "Burn" ->
         IF t.burner \in DOMAIN s /\ s[t.burner] <= t.amount
         THEN s   \* the entry is removed from a copy that is then dropped
         ELSE IF t.burner \in DOMAIN s
              THEN Put(s, t.burner, s[t.burner] - t.amount)
              ELSE s
    [] t.type = "Transfer" ->
         IF t.sender \notin DOMAIN s THEN s
         ELSE IF s[t.sender] < t.amount THEN s
         ELSE LET debited == IF s[t.sender] = t.amount
                             THEN Del(s, t.sender)
                             ELSE Put(s, t.sender, s[t.sender] - t.amount)
              IN IF t.receiver \in DOMAIN debited
                 THEN Put(debited, t.receiver,
                          Wrap(debited[t.receiver] + t.amount))
                 ELSE Put(debited, t.receiver, t.amount)

next_state(s, t) ==
  CASE t.type = "Mint" ->
         IF t.amount <= 0 THEN s
         ELSE IF t.minter \in DOMAIN s
              THEN Put(s, t.minter, Wrap(s[t.minter] + t.amount))
              ELSE Put(s, t.minter, t.amount)
    [] t.type = "Burn" ->
         IF t.burner \in DOMAIN s /\ s[t.burner] <= t.amount
         THEN s   \* the entry is removed from a copy that is then dropped
         ELSE IF t.burner \in DOMAIN s
              THEN Put(s, t.burner, s[t.burner] - t.amount)
              ELSE s
    [] t.type = "Transfer" ->
         IF t.sender \notin DOMAIN s THEN s
         ELSE IF s[t.sender] < t.amount THEN s
         ELSE LET debited == IF s[t.sender] = t.amount
                             THEN Del(s, t.sender)
                             ELSE Put(s, t.sender, s[t.sender] - t.amount)
              IN IF t.receiver \in DOMAIN debited
                 THEN Put(debited, t.receiver,
                          Wrap(debited[t.receiver] + t.amount))
                 ELSE Put(debited, t.receiver, t.amount)

\* next_state adds past U64Max
Overflows(s, t) ==
  CASE t.type = "Mint" ->
         t.amount > 0 /\ t.minter \in DOMAIN s
           /\ s[t.minter] + t.amount > U64Max
    [] t.type = "Burn" -> FALSE
    [] t.type = "Transfer" ->
         /\ t.sender \in DOMAIN s
         /\ s[t.sender] >= t.amount
         /\ LET debited == IF s[t.sender] = t.amount
                            THEN Del(s, t.sender)
                            ELSE Put(s, t.sender, s[t.sender] - t.amount)
            IN t.receiver \in DOMAIN debited
                 /\ debited[t.receiver] + t.amount > U64Max

RECURSIVE Replay(_, _)
Replay(s, body) ==
  IF body = <<>> THEN s
  ELSE Replay(next_state(s, Head(body)), Tail(body))

RECURSIVE SumBalances(_)
SumBalances(s) ==
  IF DOMAIN s = {} THEN 0
  ELSE LET u == CHOOSE x \in DOMAIN s : TRUE
       IN s[u] + SumBalances(Del(s, u))

\* ---------------------------------------------------- headers and blocks
HeaderGenesis(genesis_state_root) ==
  [parent |-> Raw(0), height |-> 0, state_root |-> genesis_state_root,
   extrinsics_root |-> HashBody(<<>>), consensus_digest |-> 0]

BlockGenesis(genesis_state) ==
  [header |-> HeaderGenesis(HashState(genesis_state)), body |-> <<>>]

\* ---------------------------------------------------------- consensus (c3)
\* hash(header) < threshold, as a fixed predicate of the header
PowValidate(header) == (header.height + header.consensus_digest) % 2 = 1

StateRootIsEven_any(root) == TRUE

StateRootIsEven(root) ==
  IF root[1] = "state" THEN SumBalances(root[2]) % 2 = 0
  ELSE root[2] % 2 = 0

validate(engine, parent_digest, header) ==
  IF engine = "EvenOnlyPow"
  THEN StateRootIsEven(header.state_root) /\ PowValidate(header)
  ELSE PowValidate(header)

\* the set of headers seal may return (the digest is searched at random)
PowSeal(partial_header) ==
  {Some([partial_header EXCEPT !.consensus_digest = d]) :
     d \in {x \in Digests :
              PowValidate([partial_header EXCEPT !.consensus_digest = x])}}

seal(engine, parent_digest, partial_header) ==
  IF engine = "EvenOnlyPow"
  THEN IF StateRootIsEven(partial_header.state_root)
       THEN PowSeal(partial_header)
       ELSE {None}
  ELSE PowSeal(partial_header)

\* ------------------------------------------- the consensus engines (c3)
\* An engine is a record of its type and its parameters. A digest is a
\* number (Pow), an authority (SimplePoa, PoaRoundRobinByHeight), a record
\* of slot and signature (PoaRoundRobinBySlot) or a tagged value
\* (PowOrPoaDigest). validate gives the set of its outcomes, "true", "false"
\* or "panic", and seal the set of its outcomes, None, Some(header) or Panic:
\* more than one where the result is searched at random or where the build
\* decides whether an overflow aborts or wraps.
Contains(seq, x) == \E i \in 1..Len(seq) : seq[i] = x

Panic == <<"panic">>
Bool(b) == IF b THEN "true" ELSE "false"

PowDigest(v) == <<"Pow", v>>
PoaDigest(c) == <<"Poa", c>>

Pow == [type |-> "Pow"]
SimplePoa(authorities) == [type |-> "SimplePoa", authorities |-> authorities]
PoaRoundRobinByHeight(authorities) ==
  [type |-> "PoaRoundRobinByHeight", authorities |-> authorities]
PoaRoundRobinBySlot(authorities) ==
  [type |-> "PoaRoundRobinBySlot", authorities |-> authorities]
EvenOnly(inner) == [type |-> "EvenOnly", inner |-> inner]
AlternatingPowPoa(pow, poa) ==
  [type |-> "AlternatingPowPoa", pow |-> pow, poa |-> poa]
Forked(D, fork_height, before, after) ==
  [type |-> "Forked", D |-> D, fork_height |-> fork_height,
   before |-> before, after |-> after]

\* type Digest of each engine
RECURSIVE DigestType(_)
DigestType(e) ==
  CASE e.type = "Pow" -> "u64"
    [] e.type \in {"SimplePoa", "PoaRoundRobinByHeight"} -> "ConsensusAuthority"
    [] e.type = "PoaRoundRobinBySlot" -> "SlotDigest"
    [] e.type = "EvenOnly" -> DigestType(e.inner)
    [] e.type = "AlternatingPowPoa" -> "PowOrPoaDigest"
    [] e.type = "Forked" -> e.D

\* T::try_from(d) for d of type D: Some(value) for Ok, None for Err
TryFrom(T, D, d) ==
  IF T = D THEN Some(d)
  ELSE IF D = "PowOrPoaDigest" /\ T = "u64"
       THEN IF d[1] = "Pow" THEN Some(d[2]) ELSE None
  ELSE IF D = "PowOrPoaDigest" /\ T = "ConsensusAuthority"
       THEN IF d[1] = "Poa" THEN Some(d[2]) ELSE None
  ELSE None

\* D::from(d) for d of type T
From(D, T, d) ==
  IF T = D THEN d
  ELSE IF T = "u64" THEN PowDigest(d)
  ELSE PoaDigest(d)

Position(seq, x) ==
  CHOOSE i \in 1..Len(seq) : seq[i] = x /\ \A j \in 1..(i - 1) : seq[j] # x

WithDigest(header, d) == [header EXCEPT !.consensus_digest = d]

\* (height - 1) % len as an index from 1, for each outcome of the subtraction
ByHeightTurns(authorities, height) ==
  IF Len(authorities) = 0 THEN {Panic}
  ELSE IF height = 0
       THEN {Panic, Some((U64Max % Len(authorities)) + 1)}
  ELSE {Some(((height - 1) % Len(authorities)) + 1)}

\* the position after parent_digest.signature in the list, from 1
BySlotNext(authorities, parent_digest) ==
  IF ~Contains(authorities, parent_digest.signature) THEN Panic
  ELSE LET parent_pos == Position(authorities, parent_digest.signature)
       IN Some(IF parent_pos = Len(authorities) THEN 1 ELSE parent_pos + 1)

RECURSIVE Consensus_validate(_, _, _)
Consensus_validate(e, parent_digest, header) ==
  CASE e.type = "Pow" -> {Bool(PowValidate(header))}
    [] e.type = "SimplePoa" ->
         {Bool(Contains(e.authorities, header.consensus_digest))}
    [] e.type = "PoaRoundRobinByHeight" ->
         {IF turn = Panic THEN "panic"
          ELSE Bool(header.consensus_digest = e.authorities[turn[2]]) :
            turn \in ByHeightTurns(e.authorities, header.height)}
    [] e.type = "PoaRoundRobinBySlot" ->
         IF parent_digest.slot >= header.consensus_digest.slot THEN {"false"}
         ELSE LET next_auth == BySlotNext(e.authorities, parent_digest)
              IN IF next_auth = Panic THEN {"panic"}
                 ELSE {Bool(header.consensus_digest.signature
                              = e.authorities[next_auth[2]])}
    [] e.type = "EvenOnly" ->
         IF ~StateRootIsEven(header.state_root) THEN {"false"}
         ELSE Consensus_validate(e.inner, parent_digest, header)
    [] e.type = "AlternatingPowPoa" ->
         IF parent_digest[1] = "Pow"
         THEN IF header.consensus_digest[1] # "Poa" THEN {"false"}
              ELSE Consensus_validate(
                     e.poa, "Alice",
                     WithDigest(header, header.consensus_digest[2]))
         ELSE IF header.consensus_digest[1] # "Pow" THEN {"false"}
              ELSE Consensus_validate(
                     e.pow, 0, WithDigest(header, header.consensus_digest[2]))
    [] e.type = "Forked" ->
         IF header.height < e.fork_height
         THEN LET T == DigestType(e.before)
                  parent_pow_digest == TryFrom(T, e.D, parent_digest)
                  header_pow_digest == TryFrom(T, e.D, header.consensus_digest)
              IN IF parent_pow_digest # None /\ header_pow_digest # None
                 THEN Consensus_validate(
                        e.before, parent_pow_digest[2],
                        WithDigest(header, header_pow_digest[2]))
                 ELSE {"false"}
         ELSE LET T == DigestType(e.after)
                  parent_poa_digest == TryFrom(T, e.D, parent_digest)
                  header_pow_digest == TryFrom(T, e.D, header.consensus_digest)
              IN IF parent_poa_digest # None /\ header_pow_digest # None
                 THEN {IF r = "panic" THEN "panic" ELSE "false" :
                         r \in Consensus_validate(
                                 e.after, parent_poa_digest[2],
                                 WithDigest(header, header_pow_digest[2]))}
                 ELSE {"false"}

\* seal with AlternatingPowPoa sealing in the kind of the parent's digest
RECURSIVE Consensus_seal_same_kind(_, _, _)
Consensus_seal_same_kind(e, parent_digest, partial_header) ==
  CASE e.type = "Pow" -> PowSeal(partial_header)
    [] e.type = "SimplePoa" ->
         IF Len(e.authorities) = 0 THEN {Panic}
         ELSE {Some(WithDigest(partial_header, e.authorities[1]))}
    [] e.type = "PoaRoundRobinByHeight" ->
         {IF turn = Panic THEN Panic
          ELSE Some(WithDigest(partial_header, e.authorities[turn[2]])) :
            turn \in ByHeightTurns(e.authorities, partial_header.height)}
    [] e.type = "PoaRoundRobinBySlot" ->
         LET next_auth == BySlotNext(e.authorities, parent_digest)
         IN IF next_auth = Panic THEN {Panic}
            ELSE {IF slot = Panic THEN Panic
                  ELSE Some(WithDigest(
                              partial_header,
                              [slot |-> slot[2],
                               signature |-> e.authorities[next_auth[2]]])) :
                    slot \in IF parent_digest.slot + 1 > U64Max
                             THEN {Panic, Some(Wrap(parent_digest.slot + 1))}
                             ELSE {Some(parent_digest.slot + 1)}}
    [] e.type = "EvenOnly" ->
         IF StateRootIsEven(partial_header.state_root)
         THEN Consensus_seal_same_kind(e.inner, parent_digest, partial_header)
         ELSE {None}
    [] e.type = "AlternatingPowPoa" ->
         IF parent_digest[1] # "Pow"
         THEN {IF r = Panic THEN Panic
               ELSE Some(WithDigest(partial_header,
                                    PoaDigest(r[2].consensus_digest))) :
                 r \in Consensus_seal_same_kind(e.poa, "Alice",
                                      WithDigest(partial_header, "Alice"))}
         ELSE {IF r = Panic THEN Panic
               ELSE Some(WithDigest(partial_header,
                                    PowDigest(r[2].consensus_digest))) :
                 r \in Consensus_seal_same_kind(e.pow, 0, WithDigest(partial_header, 0))}
    [] e.type = "Forked" ->
         LET inner == IF partial_header.height < e.fork_height
                      THEN e.before ELSE e.after
             T == DigestType(inner)
             pow_digest == TryFrom(T, e.D, parent_digest)
         IN IF pow_digest = None THEN {None}
            ELSE {IF r \in {None, Panic} THEN r
                  ELSE Some(WithDigest(r[2],
                                       From(e.D, T, r[2].consensus_digest))) :
                    r \in Consensus_seal_same_kind(inner, pow_digest[2], partial_header)}

RECURSIVE Consensus_seal(_, _, _)
Consensus_seal(e, parent_digest, partial_header) ==
  CASE e.type = "Pow" -> PowSeal(partial_header)
    [] e.type = "SimplePoa" ->
         IF Len(e.authorities) = 0 THEN {Panic}
         ELSE {Some(WithDigest(partial_header, e.authorities[1]))}
    [] e.type = "PoaRoundRobinByHeight" ->
         {IF turn = Panic THEN Panic
          ELSE Some(WithDigest(partial_header, e.authorities[turn[2]])) :
            turn \in ByHeightTurns(e.authorities, partial_header.height)}
    [] e.type = "PoaRoundRobinBySlot" ->
         LET next_auth == BySlotNext(e.authorities, parent_digest)
         IN IF next_auth = Panic THEN {Panic}
            ELSE {IF slot = Panic THEN Panic
                  ELSE Some(WithDigest(
                              partial_header,
                              [slot |-> slot[2],
                               signature |-> e.authorities[next_auth[2]]])) :
                    slot \in IF parent_digest.slot + 1 > U64Max
                             THEN {Panic, Some(Wrap(parent_digest.slot + 1))}
                             ELSE {Some(parent_digest.slot + 1)}}
    [] e.type = "EvenOnly" ->
         IF StateRootIsEven(partial_header.state_root)
         THEN Consensus_seal(e.inner, parent_digest, partial_header)
         ELSE {None}
    [] e.type = "AlternatingPowPoa" ->
         IF parent_digest[1] = "Pow"
         THEN {IF r = Panic THEN Panic
               ELSE Some(WithDigest(partial_header,
                                    PoaDigest(r[2].consensus_digest))) :
                 r \in Consensus_seal(e.poa, "Alice",
                                      WithDigest(partial_header, "Alice"))}
         ELSE {IF r = Panic THEN Panic
               ELSE Some(WithDigest(partial_header,
                                    PowDigest(r[2].consensus_digest))) :
                 r \in Consensus_seal(e.pow, 0, WithDigest(partial_header, 0))}
    [] e.type = "Forked" ->
         LET inner == IF partial_header.height < e.fork_height
                      THEN e.before ELSE e.after
             T == DigestType(inner)
             pow_digest == TryFrom(T, e.D, parent_digest)
         IN IF pow_digest = None THEN {None}
            ELSE {IF r \in {None, Panic} THEN r
                  ELSE Some(WithDigest(r[2],
                                       From(e.D, T, r[2].consensus_digest))) :
                    r \in Consensus_seal(inner, pow_digest[2], partial_header)}

\* an engine and the arguments it is going to be called with
ConsensusNew(e, parent_digest, header) ==
  [engine |-> e, op |-> "new", parent_digest |-> parent_digest,
   header |-> header, outcome |-> None]

\* ------------------------------------------------------------ storage (c4)
StorageNew ==
  [last_block |-> BlockGenesis(DefaultState),
   state |-> DefaultState,
   blocks_map |-> (HashBlock(BlockGenesis(DefaultState)) :> BlockGenesis(DefaultState)),
   states_map |-> (HashState(DefaultState) :> DefaultState)]

\* add_block keyed by the hash of the header alone
add_block_by_header(st, block) ==
  [st EXCEPT !.blocks_map =
     [k \in (DOMAIN st.blocks_map) \cup {HashHeader(block.header)} |->
        IF k = HashHeader(block.header) THEN block ELSE st.blocks_map[k]]]

add_block(st, block) ==
  [st EXCEPT !.blocks_map =
     [k \in (DOMAIN st.blocks_map) \cup {HashBlock(block)} |->
        IF k = HashBlock(block) THEN block ELSE st.blocks_map[k]]]

get_block(st, block_hash) ==
  IF block_hash \in DOMAIN st.blocks_map
  THEN Some(st.blocks_map[block_hash]) ELSE None

get_last_block(st) == st.last_block

current_state(st) == st.state

set_state(st, s) == [st EXCEPT !.state = s]

get_state(st, state_root) ==
  IF state_root \in DOMAIN st.states_map
  THEN Some(st.states_map[state_root]) ELSE None

set_current_state(st, s) == [st EXCEPT !.state = s]

set_last_block(st, block) == [st EXCEPT !.last_block = block]

\* ------------------------------------------------------- fork choice: Ghost
GhostDefault == <<>>

MaxKey(f) == CHOOSE k \in DOMAIN f : \A j \in DOMAIN f : j <= k

\* the first entry, in key order, whose chain holds the hash
FirstKeyContaining(f, h) ==
  CHOOSE k \in DOMAIN f :
    Contains(f[k], h) /\ \A j \in DOMAIN f : Contains(f[j], h) => k <= j

Ghost_best_block(fc) ==
  IF DOMAIN fc = {} THEN None
  ELSE LET v == fc[MaxKey(fc)]
       IN IF Len(v) = 0 THEN None ELSE Some(v[Len(v)])

MapRemove(f, k) == [x \in (DOMAIN f) \ {k} |-> f[x]]
MapInsert(f, k, v) == [x \in (DOMAIN f) \cup {k} |-> IF x = k THEN v ELSE f[x]]

Ghost_import_hook(fc, block) ==
  IF \E k \in DOMAIN fc : Contains(fc[k], block.header.parent)
  THEN LET weight == FirstKeyContaining(fc, block.header.parent)
           chain == Append(fc[weight], HashBlock(block))
           new_weight == Wrap(weight + block.header.consensus_digest)
       IN MapInsert(MapRemove(fc, weight), new_weight, chain)
  ELSE MapInsert(fc, block.header.consensus_digest, <<HashBlock(block)>>)

\* ----------------------------------------------- fork choice: LongestChain
LongestChainDefault == [best_header_height |-> 0, best_header_hash |-> Raw(0)]

LongestChain_best_block(fc) == Some(fc.best_header_hash)

LongestChain_import_hook(fc, block) ==
  IF block.header.height > fc.best_header_height
  THEN [best_header_height |-> block.header.height,
        best_header_hash |-> HashBlock(block)]
  ELSE fc

\* ---------------------------------------------- fork choice: HeaviestChain
HeaviestChainDefault == <<>>

\* the first entry, in key order, whose tip is the hash
FirstKeyWithTip(f, h) ==
  CHOOSE k \in DOMAIN f : f[k] = h /\ \A j \in DOMAIN f : f[j] = h => k <= j

HeaviestChain_best_block(fc) ==
  IF DOMAIN fc = {} THEN None ELSE Some(fc[MaxKey(fc)])

HeaviestChain_import_hook(fc, block) ==
  IF \E k \in DOMAIN fc : fc[k] = block.header.parent
  THEN LET chain_weight_v == FirstKeyWithTip(fc, block.header.parent)
       IN MapInsert(MapRemove(fc, chain_weight_v),
                    Wrap(chain_weight_v + block.header.consensus_digest),
                    HashBlock(block))
  ELSE MapInsert(fc, block.header.consensus_digest, HashBlock(block))

\* ---------------------------------------------- fork choice: MostAliceSigs
MostAliceSigsDefault == <<>>

MostAliceSigs_best_block(fc) ==
  IF DOMAIN fc = {} THEN None ELSE Some(fc[MaxKey(fc)])

MostAliceSigs_import_hook(fc, block) ==
  LET has_alice_sig == block.header.consensus_digest = "Alice"
  IN IF \E k \in DOMAIN fc : fc[k] = block.header.parent
     THEN LET chain_alice_sigs_v == FirstKeyWithTip(fc, block.header.parent)
          IN IF ~has_alice_sig THEN fc
             ELSE MapInsert(MapRemove(fc, chain_alice_sigs_v),
                            Wrap(chain_alice_sigs_v + 1), HashBlock(block))
     ELSE MapInsert(fc, IF has_alice_sig THEN 1 ELSE 0, HashBlock(block))

\* ------------------------------------------- fork choice: the client's FC
ForkChoiceRules == {"Ghost", "HeaviestChain", "LongestChain"}

ForkChoiceDefault(rule) ==
  CASE rule = "Ghost" -> GhostDefault
    [] rule = "HeaviestChain" -> HeaviestChainDefault
    [] rule = "LongestChain" -> LongestChainDefault
    [] rule = "MostAliceSigs" -> MostAliceSigsDefault

best_block(rule, fc) ==
  CASE rule = "Ghost" -> Ghost_best_block(fc)
    [] rule = "HeaviestChain" -> HeaviestChain_best_block(fc)
    [] rule = "LongestChain" -> LongestChain_best_block(fc)
    [] rule = "MostAliceSigs" -> MostAliceSigs_best_block(fc)

import_hook(rule, fc, block) ==
  CASE rule = "Ghost" -> Ghost_import_hook(fc, block)
    [] rule = "HeaviestChain" -> HeaviestChain_import_hook(fc, block)
    [] rule = "LongestChain" -> LongestChain_import_hook(fc, block)
    [] rule = "MostAliceSigs" -> MostAliceSigs_import_hook(fc, block)

\* ------------------------------------------------- transaction pool (c4/p4)
prioritizer(t) ==
  CASE t.type = "Mint" -> 5
    [] t.type = "Burn" -> 4
    [] t.type = "Transfer" -> 6

InsertAt(q, pos, t) == SubSeq(q, 1, pos - 1) \o <<t>> \o SubSeq(q, pos, Len(q))

try_insert(q, t) ==
  IF prioritizer(t) < MinimumPriority THEN q
  ELSE IF \E i \in 1..Len(q) : prioritizer(q[i]) < prioritizer(t)
       THEN InsertAt(q, CHOOSE i \in 1..Len(q) :
                          /\ prioritizer(q[i]) < prioritizer(t)
                          /\ \A j \in 1..(i - 1) : ~(prioritizer(q[j]) < prioritizer(t)),
                     t)
       ELSE Append(q, t)

\* remove taking out the first entry equal to t only
remove_first(q, t) ==
  IF ~Contains(q, t) THEN q
  ELSE SubSeq(q, 1, Position(q, t) - 1) \o SubSeq(q, Position(q, t) + 1, Len(q))

remove(q, t) == SelectSeq(q, LAMBDA e : e # t)

RECURSIVE RemoveAll(_, _)
RemoveAll(q, used) ==
  IF used = <<>> THEN q
  ELSE RemoveAll(remove(q, Head(used)), Tail(used))

next_from_pool(q) ==
  IF q = <<>> THEN [transaction |-> None, queue |-> q]
  ELSE [transaction |-> Some(Head(q)), queue |-> Tail(q)]

\* ------------------------------------------------ the three pools (p4)
\* the prioritizer and the threshold of the pool tests, and a censor that
\* flags the transactions of kind Burn
PoolMinimumPriority == 5
might_be_terrorist(t) == t.type = "Burn"

PoolTypes == {"SimplePool", "PriorityPool", "CensoringPool"}

PoolNew(type) == [type |-> type, queue |-> <<>>]

\* try_insert of each pool: whether t was accepted, and the queue afterwards
SimplePool_try_insert(q, t) == [accepted |-> TRUE, queue |-> Append(q, t)]

PriorityPool_try_insert_before_equals(q, minimum_priority, t) ==
  LET prio == prioritizer(t)
  IN IF prio < minimum_priority THEN [accepted |-> FALSE, queue |-> q]
     ELSE IF \E i \in 1..Len(q) : prioritizer(q[i]) <= prio
          THEN [accepted |-> TRUE,
                queue |-> InsertAt(q, CHOOSE pos \in 1..Len(q) :
                                        /\ prioritizer(q[pos]) <= prio
                                        /\ \A j \in 1..(pos - 1) :
                                             ~(prioritizer(q[j]) <= prio),
                                   t)]
          ELSE [accepted |-> TRUE, queue |-> Append(q, t)]

PriorityPool_try_insert(q, minimum_priority, t) ==
  LET prio == prioritizer(t)
  IN IF prio < minimum_priority THEN [accepted |-> FALSE, queue |-> q]
     ELSE IF \E i \in 1..Len(q) : prioritizer(q[i]) < prio
          THEN [accepted |-> TRUE,
                queue |-> InsertAt(q, CHOOSE pos \in 1..Len(q) :
                                        /\ prioritizer(q[pos]) < prio
                                        /\ \A j \in 1..(pos - 1) :
                                             ~(prioritizer(q[j]) < prio),
                                   t)]
          ELSE [accepted |-> TRUE, queue |-> Append(q, t)]

CensoringPool_try_insert_uncensored(q, t) ==
  [accepted |-> TRUE, queue |-> Append(q, t)]

CensoringPool_try_insert(q, t) ==
  IF might_be_terrorist(t) THEN [accepted |-> FALSE, queue |-> q]
  ELSE [accepted |-> TRUE, queue |-> Append(q, t)]

Pool_try_insert(p, t) ==
  CASE p.type = "SimplePool" -> SimplePool_try_insert(p.queue, t)
    [] p.type = "PriorityPool" ->
         PriorityPool_try_insert(p.queue, PoolMinimumPriority, t)
    [] p.type = "CensoringPool" -> CensoringPool_try_insert(p.queue, t)

\* the loop running one round too many (0..=10)
RECURSIVE DrainLoop_inclusive(_, _, _, _)
DrainLoop_inclusive(i, q, new_state, used_transactions) ==
  IF i = AuthorCap + 1
  THEN [queue |-> q, new_state |-> new_state,
        used_transactions |-> used_transactions]
  ELSE LET n == next_from_pool(q)
       IN IF n.transaction = None
          THEN [queue |-> q, new_state |-> new_state,
                used_transactions |-> used_transactions]
          ELSE DrainLoop_inclusive(i + 1, n.queue,
                                   next_state(new_state, n.transaction[2]),
                                   Append(used_transactions, n.transaction[2]))

\* the loop of author_and_import_automatic_block: up to AuthorCap rounds of
\* next_from_pool, each transaction applied and remembered
RECURSIVE DrainLoop(_, _, _, _)
DrainLoop(i, q, new_state, used_transactions) ==
  IF i = AuthorCap
  THEN [queue |-> q, new_state |-> new_state,
        used_transactions |-> used_transactions]
  ELSE LET n == next_from_pool(q)
       IN IF n.transaction = None
          THEN [queue |-> q, new_state |-> new_state,
                used_transactions |-> used_transactions]
          ELSE DrainLoop(i + 1, n.queue,
                         next_state(new_state, n.transaction[2]),
                         Append(used_transactions, n.transaction[2]))

\* ------------------------------------------------------------------- state
VARIABLES consensus_engine, fork_choice, transaction_pool, storage, ret,
          fork_choice_rule, imported, balances, pool, consensus

vars == <<consensus_engine, fork_choice, transaction_pool, storage, ret,
          fork_choice_rule, imported, balances, pool, consensus>>

\* fork_choice_rule is the type the client's FC parameter is instantiated
\* with; imported is the sequence of blocks import_hook was called with
\* directly on the fork-choice object; balances is the state of a state
\* machine that is driven on its own
\* pool is a transaction pool that is driven on its own: its type and its
\* queue; consensus is a consensus engine that is called on its own: the
\* engine, the arguments, and the last call with its outcome
apart == <<pool, consensus>>

standalone == <<fork_choice_rule, imported, balances, apart>>

\* what the last call was and what it gave: its result, the reason of an
\* Err, the block it committed, the blocks it passed to import_hook; for
\* import_block whether the block met the five import conditions and
\* whether it repeats the import that has just succeeded; for manual
\* authoring whether the parent and its state were found and, on Ok, the
\* arguments; for next_state the transition; for remove whether the
\* transaction was in the pool
Ret(op, result, reason, block, hooks) ==
  [op |-> op, result |-> result, reason |-> reason, block |-> block,
   hooks |-> hooks, conditions |-> FALSE, repeat |-> FALSE, input |-> None]

Init ==
  /\ consensus_engine \in {"Pow", "EvenOnlyPow"}
  /\ fork_choice = GhostDefault
  /\ transaction_pool = <<>>
  /\ storage = StorageNew
  /\ ret = Ret("new", "none", "none", None, <<>>)
  /\ fork_choice_rule = "Ghost"
  /\ imported = <<>>
  /\ balances = DefaultState
  /\ pool = PoolNew("PriorityPool")
  /\ consensus = ConsensusNew(Pow, 0, HeaderGenesis(HashState(DefaultState)))

Running == ret.result # "panic"

StoredBlocks == {storage.blocks_map[k] : k \in DOMAIN storage.blocks_map}
StoredStates == {storage.states_map[k] : k \in DOMAIN storage.states_map}

RoomFor(block) ==
  \/ HashBlock(block) \in DOMAIN storage.blocks_map
  \/ /\ Cardinality(DOMAIN storage.blocks_map) < MaxBlocks
     /\ block.header.height <= MaxHeight

RECURSIVE Hooked(_)
Hooked(fc) ==
  IF DOMAIN fc = {} THEN 0
  ELSE LET k == CHOOSE x \in DOMAIN fc : TRUE
       IN Len(fc[k]) + Hooked([x \in (DOMAIN fc) \ {k} |-> fc[x]])

RoomForHook ==
  fork_choice_rule = "Ghost" => Hooked(fork_choice) < MaxHooks

\* ------------------------------------------------------------ import_block
\* import_block without the comparison of the replayed state with state_root
ImportOutcomes_no_state_root(block) ==
  LET last_block == get_last_block(storage)
  IN IF block.header.height = 0
     THEN {"panic", "false"}
     ELSE IF block.header.height - 1 # last_block.header.height THEN {"false"}
     ELSE IF block.header.parent # HashHeader(last_block.header) THEN {"false"}
     ELSE IF ~validate(consensus_engine,
                       last_block.header.consensus_digest, block.header)
          THEN {"false"}
     ELSE IF HashBody(block.body) # block.header.extrinsics_root THEN {"false"}
     ELSE {"true"}

\* the results import_block can give on this block
ImportOutcomes(block) ==
  LET last_block == get_last_block(storage)
      replayed == Replay(current_state(storage), block.body)
  IN IF block.header.height = 0
     THEN {"panic", "false"}   \* height - 1 on a u64: aborts or wraps
     ELSE IF block.header.height - 1 # last_block.header.height THEN {"false"}
     ELSE IF block.header.parent # HashHeader(last_block.header) THEN {"false"}
     ELSE IF ~validate(consensus_engine,
                       last_block.header.consensus_digest, block.header)
          THEN {"false"}
     ELSE IF HashState(replayed) # block.header.state_root THEN {"false"}
     ELSE IF HashBody(block.body) # block.header.extrinsics_root THEN {"false"}
     ELSE {"true"}

\* the blocks a peer may send: the children of the last block, built on
\* either state the client holds for it and naming it by either hash; the
\* empty children of the other known blocks; and the blocks import_block
\* accepts with one header field spoilt
Child(p, parent_hash, pre_state, body, d) ==
  [header |-> [parent |-> parent_hash, height |-> p.header.height + 1,
               state_root |-> HashState(Replay(pre_state, body)),
               extrinsics_root |-> HashBody(body), consensus_digest |-> d],
   body |-> body]

PreStates(p) ==
  {storage.state} \cup
    (IF p.header.state_root \in DOMAIN storage.states_map
     THEN {storage.states_map[p.header.state_root]} ELSE {})

Spoilt(block) ==
  {[block EXCEPT !.header.height = 0],
   [block EXCEPT !.header.height = block.header.height + 1],
   [block EXCEPT !.header.parent = Raw(0)],
   [block EXCEPT !.header.state_root = Raw(12)],
   [block EXCEPT !.header.extrinsics_root = Raw(12)]}

ImportCandidates ==
  LET last_block == get_last_block(storage)
      on_last ==
        {Child(last_block, HashHeader(last_block.header), s, body, d) :
           s \in PreStates(last_block),
           body \in ImportBodies, d \in ImportDigests}
      by_block_hash ==
        {Child(last_block, HashBlock(last_block), storage.state, <<>>, d) :
           d \in ImportDigests}
      on_others ==
        {Child(p, HashHeader(p.header), s, <<>>, d) :
           <<p, s>> \in
             {<<b, IF b.header.state_root \in DOMAIN storage.states_map
                   THEN storage.states_map[b.header.state_root]
                   ELSE storage.state>> :
                b \in StoredBlocks \ {last_block}},
           d \in ImportDigests}
      sound == {c \in on_last \cup by_block_hash \cup on_others :
                  c.header.height <= MaxHeight}
  IN sound \cup
     UNION {Spoilt(c) : c \in {x \in sound : ImportOutcomes(x) = {"true"}}}

\* the five conditions of an acceptable block, on the stored blocks and the
\* states stored for them
ImportConditions(block) ==
  \E p \in StoredBlocks :
    /\ block.header.parent = HashHeader(p.header)
    /\ block.header.height = p.header.height + 1
    /\ validate(consensus_engine, p.header.consensus_digest, block.header)
    /\ get_state(storage, p.header.state_root) # None
    /\ HashState(Replay(get_state(storage, p.header.state_root)[2], block.body))
         = block.header.state_root
    /\ HashBody(block.body) = block.header.extrinsics_root

\* import_block storing the replayed state before it compares the roots
import_block_set_state_first(block) ==
  /\ Running
  /\ \E r \in ImportOutcomes(block) :
       /\ r = "true" => RoomFor(block)
       /\ storage' =
            IF r = "true"
            THEN add_block(set_state(storage,
                                     Replay(current_state(storage), block.body)),
                           block)
            ELSE IF /\ block.header.height - 1 = get_last_block(storage).header.height
                    /\ block.header.parent = HashHeader(get_last_block(storage).header)
                 THEN set_state(storage,
                                Replay(current_state(storage), block.body))
                 ELSE storage
       /\ ret' = [Ret("import_block", r, "none",
                      IF r = "true" THEN Some(block) ELSE None, <<>>)
                    EXCEPT !.conditions = ImportConditions(block),
                           !.repeat = /\ ret.op = "import_block"
                                      /\ ret.result = "true"
                                      /\ ret.block = Some(block)]
  /\ UNCHANGED <<consensus_engine, fork_choice, transaction_pool, standalone>>

import_block(block) ==
  /\ Running
  /\ \E r \in ImportOutcomes(block) :
       /\ r = "true" => RoomFor(block)
       /\ storage' =
            IF r = "true"
            THEN add_block(set_state(storage,
                                     Replay(current_state(storage), block.body)),
                           block)
            ELSE storage
       /\ ret' = [Ret("import_block", r, "none",
                      IF r = "true" THEN Some(block) ELSE None, <<>>)
                    EXCEPT !.conditions = ImportConditions(block),
                           !.repeat = /\ ret.op = "import_block"
                                      /\ ret.result = "true"
                                      /\ ret.block = Some(block)]
  /\ UNCHANGED <<consensus_engine, fork_choice, transaction_pool, standalone>>

\* ------------------------------------------------------ submit_transaction
submit_transaction(t) ==
  /\ Running
  /\ transaction_pool' = try_insert(transaction_pool, t)
  /\ ret' = Ret("submit_transaction", "none", "none", None, <<>>)
  /\ UNCHANGED <<consensus_engine, fork_choice, storage, standalone>>

\* ------------------------------------------ author_and_import_manual_block
ManualParents ==
  (DOMAIN storage.blocks_map)
    \cup {HashHeader(get_last_block(storage).header), Raw(12)}

author_and_import_manual_block(transactions, parent_hash) ==
  /\ Running
  /\ UNCHANGED <<consensus_engine, transaction_pool, standalone>>
  /\ LET parent_block == get_block(storage, parent_hash)
         RetManual(result, reason, block, hooks) ==
           [Ret("manual", result, reason, block, hooks)
              EXCEPT !.conditions =
                       /\ parent_block # None
                       /\ get_state(storage,
                                    parent_block[2].header.state_root) # None,
                     !.input = IF result = "Ok"
                               THEN Some(<<transactions, parent_hash>>)
                               ELSE None]
     IN IF parent_block = None
        THEN /\ ret' = RetManual("Err", "no_parent", None, <<>>)
             /\ UNCHANGED <<storage, fork_choice>>
        ELSE
        LET parent_state == get_state(storage, parent_block[2].header.state_root)
        IN IF parent_state = None
           THEN /\ ret' = RetManual("Err", "no_state", None, <<>>)
                /\ UNCHANGED <<storage, fork_choice>>
           ELSE
           LET new_state == Replay(parent_state[2], transactions)
               header == [parent |-> parent_hash,
                          height |-> parent_block[2].header.height + 1,
                          state_root |-> HashState(new_state),
                          extrinsics_root |-> HashBody(transactions),
                          consensus_digest |-> 0]
           IN \E sealed_header \in seal(consensus_engine,
                                        parent_block[2].header.consensus_digest,
                                        header) :
                IF sealed_header = None
                THEN /\ ret' = RetManual("Err", "seal", None, <<>>)
                     /\ UNCHANGED <<storage, fork_choice>>
                ELSE LET block == [header |-> sealed_header[2],
                                   body |-> transactions]
                     IN /\ RoomFor(block)
                        /\ RoomForHook
                        /\ storage' = set_state(add_block(storage, block),
                                                new_state)
                        /\ fork_choice' =
                             import_hook(fork_choice_rule, fork_choice, block)
                        /\ ret' = RetManual("Ok", "none", Some(block),
                                      <<block>>)

\* --------------------------------------- author_and_import_automatic_block
\* the call putting the drained transactions back when the seal is refused
SealAndImport_requeues(parent_block_hash, parent_block, loop) ==
  LET new_state == loop.new_state
      used_transactions == loop.used_transactions
      header == [parent |-> parent_block_hash,
                 height |-> parent_block.header.height + 1,
                 state_root |-> HashState(new_state),
                 extrinsics_root |-> HashBody(used_transactions),
                 consensus_digest |-> 0]
  IN \E sealed_header \in seal(consensus_engine,
                               parent_block.header.consensus_digest, header) :
       IF sealed_header = None
       THEN /\ ret' = Ret("automatic", "Err", "seal", None, <<>>)
            /\ UNCHANGED transaction_pool
            /\ UNCHANGED storage
            /\ UNCHANGED fork_choice
       ELSE LET block == [header |-> sealed_header[2],
                          body |-> used_transactions]
            IN /\ RoomFor(block)
               /\ RoomForHook
               /\ transaction_pool' = RemoveAll(loop.queue, used_transactions)
               /\ storage' =
                    set_last_block(
                      set_current_state(
                        set_state(add_block(storage, block), new_state),
                        new_state),
                      block)
               /\ fork_choice' =
                    import_hook(fork_choice_rule, fork_choice, block)
               /\ ret' = Ret("automatic", "Ok", "none", Some(block), <<block>>)

\* the sealing and import part storing the new state before it asks for the seal
SealAndImport_state_first(parent_block_hash, parent_block, loop) ==
  LET new_state == loop.new_state
      used_transactions == loop.used_transactions
      header == [parent |-> parent_block_hash,
                 height |-> parent_block.header.height + 1,
                 state_root |-> HashState(new_state),
                 extrinsics_root |-> HashBody(used_transactions),
                 consensus_digest |-> 0]
  IN \E sealed_header \in seal(consensus_engine,
                               parent_block.header.consensus_digest, header) :
       IF sealed_header = None
       THEN /\ ret' = Ret("automatic", "Err", "seal", None, <<>>)
            /\ transaction_pool' = loop.queue
            /\ storage' = set_state(storage, new_state)
            /\ UNCHANGED fork_choice
       ELSE LET block == [header |-> sealed_header[2],
                          body |-> used_transactions]
            IN /\ RoomFor(block)
               /\ RoomForHook
               /\ transaction_pool' = RemoveAll(loop.queue, used_transactions)
               /\ storage' =
                    set_last_block(
                      set_current_state(
                        set_state(add_block(storage, block), new_state),
                        new_state),
                      block)
               /\ fork_choice' =
                    import_hook(fork_choice_rule, fork_choice, block)
               /\ ret' = Ret("automatic", "Ok", "none", Some(block), <<block>>)

\* the sealing and import part of author_and_import_automatic_block
SealAndImport(parent_block_hash, parent_block, loop) ==
  LET new_state == loop.new_state
      used_transactions == loop.used_transactions
      header == [parent |-> parent_block_hash,
                 height |-> parent_block.header.height + 1,
                 state_root |-> HashState(new_state),
                 extrinsics_root |-> HashBody(used_transactions),
                 consensus_digest |-> 0]
  IN \E sealed_header \in seal(consensus_engine,
                               parent_block.header.consensus_digest, header) :
       IF sealed_header = None
       THEN /\ ret' = Ret("automatic", "Err", "seal", None, <<>>)
            /\ transaction_pool' = loop.queue
            /\ UNCHANGED storage
            /\ UNCHANGED fork_choice
       ELSE LET block == [header |-> sealed_header[2],
                          body |-> used_transactions]
            IN /\ RoomFor(block)
               /\ RoomForHook
               /\ transaction_pool' = RemoveAll(loop.queue, used_transactions)
               /\ storage' =
                    set_last_block(
                      set_current_state(
                        set_state(add_block(storage, block), new_state),
                        new_state),
                      block)
               /\ fork_choice' =
                    import_hook(fork_choice_rule, fork_choice, block)
               /\ ret' = Ret("automatic", "Ok", "none", Some(block), <<block>>)

\* the call without the early return on an empty batch
author_and_import_automatic_block_seals_empty ==
  /\ Running
  /\ UNCHANGED <<consensus_engine, standalone>>
  /\ LET parent_block_hash == best_block(fork_choice_rule, fork_choice)
     IN IF parent_block_hash = None
        THEN /\ ret' = Ret("automatic", "Err", "no_best", None, <<>>)
             /\ UNCHANGED <<storage, fork_choice, transaction_pool>>
        ELSE
        LET parent_block == get_block(storage, parent_block_hash[2])
        IN IF parent_block = None
           THEN /\ ret' = Ret("automatic", "Err", "no_parent", None, <<>>)
                /\ UNCHANGED <<storage, fork_choice, transaction_pool>>
           ELSE
           LET parent_state ==
                 get_state(storage, parent_block[2].header.state_root)
           IN IF parent_state = None
              THEN /\ ret' = Ret("automatic", "Err", "no_state", None, <<>>)
                   /\ UNCHANGED <<storage, fork_choice, transaction_pool>>
              ELSE
              LET loop == DrainLoop(0, transaction_pool, parent_state[2], <<>>)
              IN SealAndImport(parent_block_hash[2], parent_block[2], loop)

author_and_import_automatic_block ==
  /\ Running
  /\ UNCHANGED <<consensus_engine, standalone>>
  /\ LET parent_block_hash == best_block(fork_choice_rule, fork_choice)
     IN IF parent_block_hash = None
        THEN /\ ret' = Ret("automatic", "Err", "no_best", None, <<>>)
             /\ UNCHANGED <<storage, fork_choice, transaction_pool>>
        ELSE
        LET parent_block == get_block(storage, parent_block_hash[2])
        IN IF parent_block = None
           THEN /\ ret' = Ret("automatic", "Err", "no_parent", None, <<>>)
                /\ UNCHANGED <<storage, fork_choice, transaction_pool>>
           ELSE
           LET parent_state ==
                 get_state(storage, parent_block[2].header.state_root)
           IN IF parent_state = None
              THEN /\ ret' = Ret("automatic", "Err", "no_state", None, <<>>)
                   /\ UNCHANGED <<storage, fork_choice, transaction_pool>>
              ELSE
              LET loop == DrainLoop(0, transaction_pool, parent_state[2], <<>>)
              IN IF Len(loop.used_transactions) = 0
                 THEN /\ ret' = Ret("automatic", "Ok", "none", None, <<>>)
                      /\ transaction_pool' = loop.queue
                      /\ UNCHANGED <<storage, fork_choice>>
                 ELSE SealAndImport(parent_block_hash[2], parent_block[2], loop)

Next ==
  \/ \E block \in ImportCandidates : import_block(block)
  \/ \E t \in Transactions :
       Len(transaction_pool) < MaxPool /\ submit_transaction(t)
  \/ \E transactions \in Bodies, parent_hash \in ManualParents :
       author_and_import_manual_block(transactions, parent_hash)
  \/ author_and_import_automatic_block

Spec == Init /\ [][Next]_vars

\* FullClient::new: the storage it is handed, after set_state(genesis_state)
FullClient_new(genesis_state, st) == set_state(st, genesis_state)

\* A client constructed on a genesis state of the caller's choice, the
\* default state or one in which Alice holds a balance.
GenesisStates == {DefaultState, Put(DefaultState, "Alice", 1)}

InitGenesis ==
  /\ consensus_engine \in {"Pow", "EvenOnlyPow"}
  /\ fork_choice = GhostDefault
  /\ transaction_pool = <<>>
  /\ \E genesis_state \in GenesisStates :
       /\ storage = FullClient_new(genesis_state, StorageNew)
       /\ ret = [Ret("new", "none", "none", None, <<>>)
                  EXCEPT !.input = Some(genesis_state)]
  /\ fork_choice_rule = "Ghost"
  /\ imported = <<>>
  /\ balances = DefaultState
  /\ pool = PoolNew("PriorityPool")
  /\ consensus = ConsensusNew(Pow, 0, HeaderGenesis(HashState(DefaultState)))

SpecGenesis == InitGenesis /\ [][Next]_vars

\* The authoring path on pools longer than the cap of one block, under Pow:
\* the pool is filled up to MaxAuthorPool, one empty block is authored by
\* hand on genesis to give the fork choice a best block, and blocks are then
\* authored from the pool.
InitAuthor == Init /\ consensus_engine = "Pow"

NextAuthor ==
  \/ \E t \in Transactions :
       Len(transaction_pool) < MaxAuthorPool /\ submit_transaction(t)
  \/ /\ best_block(fork_choice_rule, fork_choice) = None
     /\ author_and_import_manual_block(<<>>, HashBlock(BlockGenesis(DefaultState)))
  \/ author_and_import_automatic_block

SpecAuthor == InitAuthor /\ [][NextAuthor]_vars

\* The same authoring path under EvenOnly, which refuses the seal to a block
\* whose state root is odd.
InitEvenOnly == Init /\ consensus_engine = "EvenOnlyPow"

SpecEvenOnly == InitEvenOnly /\ [][NextAuthor]_vars

\* weight + block.header.consensus_digest is more than a u64 holds
WeightOverflows(rule, fc, block) ==
  CASE rule = "Ghost" ->
         /\ \E k \in DOMAIN fc : Contains(fc[k], block.header.parent)
         /\ FirstKeyContaining(fc, block.header.parent)
              + block.header.consensus_digest > U64Max
    [] rule = "HeaviestChain" ->
         /\ \E k \in DOMAIN fc : fc[k] = block.header.parent
         /\ FirstKeyWithTip(fc, block.header.parent)
              + block.header.consensus_digest > U64Max
    [] rule = "LongestChain" -> FALSE
    [] rule = "MostAliceSigs" ->
         /\ block.header.consensus_digest = "Alice"
         /\ \E k \in DOMAIN fc : fc[k] = block.header.parent
         /\ FirstKeyWithTip(fc, block.header.parent) + 1 > U64Max

\* --------------------------------------------- the fork choice on its own
\* The blocks import_hook is called with directly: headers written out field
\* by field, as the callers of import_hook write them. HookGenesis and
\* HookRoot are roots, HookChild and HookOther are children of one each.
HookBlock(parent, height, digest) ==
  [header |-> [parent |-> parent, height |-> height,
               state_root |-> HashState(DefaultState),
               extrinsics_root |-> HashBody(<<>>),
               consensus_digest |-> digest],
   body |-> <<>>]

HookGenesis == BlockGenesis(DefaultState)
HookRoot == HookBlock(Raw(0), 0, 2)
HookChild == HookBlock(HashBlock(HookRoot), 1, 0)
HookOther == HookBlock(HashBlock(HookGenesis), 1, 0)

HookBlocks == {HookGenesis, HookRoot, HookChild, HookOther}

\* a child of HookRoot with the largest digest there is
HookHeavy == HookBlock(HashBlock(HookRoot), 1, U64Max)

\* fork_choice.import_hook(block) on the client's fork-choice object; an
\* addition of weights past U64Max aborts the call or wraps, as the build has
\* it
import_hook_call(block) ==
  /\ Running
  /\ Len(imported) < MaxImported
  /\ \E result \in IF WeightOverflows(fork_choice_rule, fork_choice, block)
                    THEN {"panic", "wrapped"} ELSE {"none"} :
       /\ fork_choice' = IF result = "panic" THEN fork_choice
                         ELSE import_hook(fork_choice_rule, fork_choice, block)
       /\ imported' = IF result = "panic" THEN imported
                      ELSE Append(imported, block)
       /\ ret' = Ret("import_hook", result, "none", None, <<block>>)
  /\ UNCHANGED <<consensus_engine, transaction_pool, storage,
                 fork_choice_rule, balances, apart>>

\* storage.add_block(block) on the client's storage, for a block that was
\* given to the fork choice
add_block_call(block) ==
  /\ Running
  /\ \E i \in 1..Len(imported) : imported[i] = block
  /\ RoomFor(block)
  /\ storage' = add_block(storage, block)
  /\ ret' = Ret("add_block", "none", "none", None, <<>>)
  /\ UNCHANGED <<consensus_engine, fork_choice, transaction_pool, standalone>>

InitForkChoice ==
  /\ consensus_engine = "Pow"
  /\ fork_choice_rule \in ForkChoiceRules
  /\ fork_choice = ForkChoiceDefault(fork_choice_rule)
  /\ transaction_pool = <<>>
  /\ storage = StorageNew
  /\ ret = Ret("new", "none", "none", None, <<>>)
  /\ imported = <<>>
  /\ balances = DefaultState
  /\ pool = PoolNew("PriorityPool")
  /\ consensus = ConsensusNew(Pow, 0, HeaderGenesis(HashState(DefaultState)))

NextForkChoice ==
  \/ \E block \in HookBlocks : import_hook_call(block)
  \/ \E block \in HookBlocks : add_block_call(block)
  \/ \E t \in Transactions :
       Len(transaction_pool) < MaxPool /\ submit_transaction(t)
  \/ author_and_import_automatic_block

SpecForkChoice == InitForkChoice /\ [][NextForkChoice]_vars

\* a second child of HookRoot
HookSibling == HookBlock(HashBlock(HookRoot), 1, 1)

\* A fork-choice object of each rule that is given blocks and nothing else.
NextHooks ==
  \E block \in HookBlocks \cup {HookHeavy, HookSibling} : import_hook_call(block)

SpecHooks == InitForkChoice /\ [][NextHooks]_vars

\* A MostAliceSigs object that is given blocks sealed by authorities: two
\* roots by Alice, a root by Bob, and children of the first root and of
\* Bob's root by either.
AliceRoot == HookBlock(Raw(0), 1, "Alice")
AliceRoot2 == HookBlock(Raw(12), 1, "Alice")
BobRoot == HookBlock(Raw(11), 1, "Bob")
AliceOnAlice == HookBlock(HashBlock(AliceRoot), 2, "Alice")
BobOnAlice == HookBlock(HashBlock(AliceRoot), 2, "Bob")
AliceOnBob == HookBlock(HashBlock(BobRoot), 2, "Alice")

PoaBlocks ==
  {AliceRoot, AliceRoot2, BobRoot, AliceOnAlice, BobOnAlice, AliceOnBob}

InitAliceSigs ==
  /\ consensus_engine = "SimplePoa"
  /\ fork_choice_rule = "MostAliceSigs"
  /\ fork_choice = MostAliceSigsDefault
  /\ transaction_pool = <<>>
  /\ storage = StorageNew
  /\ ret = Ret("new", "none", "none", None, <<>>)
  /\ imported = <<>>
  /\ balances = DefaultState
  /\ pool = PoolNew("PriorityPool")
  /\ consensus = ConsensusNew(Pow, 0, HeaderGenesis(HashState(DefaultState)))

NextAliceSigs == \E block \in PoaBlocks : import_hook_call(block)

SpecAliceSigs == InitAliceSigs /\ [][NextAliceSigs]_vars

\* ---------------------------------------------------- a pool on its own
MintBob == [type |-> "Mint", minter |-> "Bob", amount |-> 1]
TransferAliceBob ==
  [type |-> "Transfer", sender |-> "Alice", receiver |-> "Bob", amount |-> 1]

PoolTransactions == {MintAlice, MintBob, BurnAlice, TransferAliceBob}

\* pool.try_insert(t)
Pool_try_insert_call(t) ==
  /\ Len(pool.queue) < MaxQueue
  /\ LET r == Pool_try_insert(pool, t)
     IN /\ pool' = [pool EXCEPT !.queue = r.queue]
        /\ ret' = [Ret("try_insert", IF r.accepted THEN "true" ELSE "false",
                       "none", None, <<>>) EXCEPT !.input = Some(t)]
  /\ UNCHANGED <<consensus_engine, fork_choice, transaction_pool, storage,
                 fork_choice_rule, imported, balances, consensus>>

\* pool.remove(t)
Pool_remove_call(t) ==
  /\ pool' = [pool EXCEPT !.queue = remove(pool.queue, t)]
  /\ ret' = [Ret("remove", "none", "none", None, <<>>)
               EXCEPT !.input = Some(t), !.conditions = Contains(pool.queue, t)]
  /\ UNCHANGED <<consensus_engine, fork_choice, transaction_pool, storage,
                 fork_choice_rule, imported, balances, consensus>>

\* pool.next_from_pool()
Pool_next_from_pool_call ==
  /\ LET n == next_from_pool(pool.queue)
     IN /\ pool' = [pool EXCEPT !.queue = n.queue]
        /\ ret' = [Ret("next_from_pool", "none", "none", None, <<>>)
                     EXCEPT !.input = n.transaction]
  /\ UNCHANGED <<consensus_engine, fork_choice, transaction_pool, storage,
                 fork_choice_rule, imported, balances, consensus>>

InitPools ==
  /\ consensus_engine = "Pow"
  /\ fork_choice = GhostDefault
  /\ transaction_pool = <<>>
  /\ storage = StorageNew
  /\ ret = Ret("new", "none", "none", None, <<>>)
  /\ fork_choice_rule = "Ghost"
  /\ imported = <<>>
  /\ balances = DefaultState
  /\ \E type \in PoolTypes : pool = PoolNew(type)
  /\ consensus = ConsensusNew(Pow, 0, HeaderGenesis(HashState(DefaultState)))

NextPools ==
  \/ \E t \in PoolTransactions : Pool_try_insert_call(t)
  \/ \E t \in PoolTransactions : Pool_remove_call(t)
  \/ Pool_next_from_pool_call

SpecPools == InitPools /\ [][NextPools]_vars

\* ------------------------------------------------- an engine on its own
ForkHeight == 2

Authorities == {"Alice", "Bob", "Charlie"}
Slots == {0, 1, 2, U64Max}

change_authorities(fork_height, initial_authorities, final_authorities) ==
  Forked("ConsensusAuthority", fork_height,
         PoaRoundRobinByHeight(initial_authorities),
         PoaRoundRobinByHeight(final_authorities))

even_after_given_height(fork_height, original) ==
  Forked(DigestType(original), fork_height, original, EvenOnly(original))

pow_to_poa(fork_height, authorities) ==
  Forked("PowOrPoaDigest", fork_height, Pow,
         PoaRoundRobinByHeight(authorities))

Engines ==
  {SimplePoa(<<"Alice", "Bob">>),
   PoaRoundRobinByHeight(<<"Alice", "Bob">>),
   PoaRoundRobinBySlot(<<"Alice", "Bob">>),
   EvenOnly(SimplePoa(<<"Alice", "Bob">>)),
   EvenOnly(Pow),
   EvenOnly(PoaRoundRobinByHeight(<<"Alice", "Bob">>)),
   AlternatingPowPoa(Pow, SimplePoa(<<"Alice">>)),
   change_authorities(ForkHeight, <<"Alice", "Bob">>, <<"Bob", "Alice">>),
   even_after_given_height(ForkHeight, SimplePoa(<<"Alice", "Bob">>)),
   pow_to_poa(ForkHeight, <<"Alice", "Bob">>)}

\* the digests of a type
DigestsOf(T) ==
  CASE T = "u64" -> Digests
    [] T = "ConsensusAuthority" -> Authorities
    [] T = "SlotDigest" -> [slot : Slots, signature : Authorities]
    [] T = "PowOrPoaDigest" ->
         {PowDigest(d) : d \in Digests} \cup {PoaDigest(c) : c \in Authorities}

\* headers written out field by field, as the tests of the engines write them
HeadersOf(T) ==
  {[parent |-> Raw(0), height |-> height, state_root |-> Raw(state_root),
    extrinsics_root |-> Raw(0), consensus_digest |-> d] :
     height \in 0..MaxSealHeight, state_root \in {1, 2}, d \in DigestsOf(T)}

\* consensus.validate(&parent_digest, &header)
Consensus_validate_call ==
  /\ \E r \in Consensus_validate(consensus.engine, consensus.parent_digest,
                                  consensus.header) :
       consensus' = [consensus EXCEPT !.op = "validate", !.outcome = r]
  /\ UNCHANGED <<consensus_engine, fork_choice, transaction_pool, storage,
                 ret, fork_choice_rule, imported, balances, pool>>

\* consensus.seal(&parent_digest, header), header taken as the partial header
Consensus_seal_call ==
  /\ \E r \in Consensus_seal(consensus.engine, consensus.parent_digest,
                              consensus.header) :
       consensus' = [consensus EXCEPT !.op = "seal", !.outcome = r]
  /\ UNCHANGED <<consensus_engine, fork_choice, transaction_pool, storage,
                 ret, fork_choice_rule, imported, balances, pool>>

InitConsensus ==
  /\ consensus_engine = "Pow"
  /\ fork_choice = GhostDefault
  /\ transaction_pool = <<>>
  /\ storage = StorageNew
  /\ ret = Ret("new", "none", "none", None, <<>>)
  /\ fork_choice_rule = "Ghost"
  /\ imported = <<>>
  /\ balances = DefaultState
  /\ pool = PoolNew("PriorityPool")
  /\ \E e \in Engines :
       \E parent_digest \in DigestsOf(DigestType(e)),
          header \in HeadersOf(DigestType(e)) :
         consensus = ConsensusNew(e, parent_digest, header)

NextConsensus ==
  \/ Consensus_validate_call
  \/ Consensus_seal_call

SpecConsensus == InitConsensus /\ [][NextConsensus]_vars

\* ------------------------------------------------ an engine along a chain
\* A chain of headers that starts at the genesis header, with the default
\* digest of the engine's digest type, and is extended by one header at a
\* time: the child of the last header, written as Header::child writes it, is
\* sealed on the digest of the last header. consensus.header is the last
\* header of the chain and consensus.outcome what the last seal returned.
MaxChainHeight == 4

DigestDefault(T) ==
  CASE T = "u64" -> 0
    [] T = "PowOrPoaDigest" -> PowDigest(0)

ChainEngines ==
  {AlternatingPowPoa(Pow, SimplePoa(<<"Alice">>)),
   AlternatingPowPoa(Pow, SimplePoa(<<"Bob", "Alice">>)),
   pow_to_poa(ForkHeight, <<"Alice", "Bob">>),
   even_after_given_height(ForkHeight, Pow)}

HeaderChild(header, state_root, extrinsics_root, T) ==
  [parent |-> HashHeader(header), height |-> header.height + 1,
   state_root |-> state_root, extrinsics_root |-> extrinsics_root,
   consensus_digest |-> DigestDefault(T)]

\* consensus.seal(&last.consensus_digest, last.child(state_root, ..))
Consensus_seal_child_call ==
  /\ consensus.outcome # Panic
  /\ consensus.header.height < MaxChainHeight
  /\ \E state_root \in {Raw(1), Raw(2)} :
       LET partial_header ==
             HeaderChild(consensus.header, state_root, HashBody(<<>>),
                         DigestType(consensus.engine))
       IN \E r \in Consensus_seal(consensus.engine,
                                   consensus.header.consensus_digest,
                                   partial_header) :
            consensus' =
              IF r = None \/ r = Panic
              THEN [consensus EXCEPT !.op = "seal", !.outcome = r]
              ELSE [consensus EXCEPT
                      !.op = "seal", !.outcome = r, !.header = r[2],
                      !.parent_digest = consensus.header.consensus_digest]
  /\ UNCHANGED <<consensus_engine, fork_choice, transaction_pool, storage,
                 ret, fork_choice_rule, imported, balances, pool>>

InitChain ==
  /\ consensus_engine = "Pow"
  /\ fork_choice = GhostDefault
  /\ transaction_pool = <<>>
  /\ storage = StorageNew
  /\ ret = Ret("new", "none", "none", None, <<>>)
  /\ fork_choice_rule = "Ghost"
  /\ imported = <<>>
  /\ balances = DefaultState
  /\ pool = PoolNew("PriorityPool")
  /\ \E e \in ChainEngines, state_root \in {Raw(1), Raw(2)} :
       consensus =
         ConsensusNew(e, DigestDefault(DigestType(e)),
                      [HeaderGenesis(state_root) EXCEPT
                         !.consensus_digest = DigestDefault(DigestType(e))])

NextChain == Consensus_seal_child_call

SpecChain == InitChain /\ [][NextChain]_vars

\* ------------------------------------------- the state machine on its own
Users == {"Alice", "Bob"}
Amounts == {0, 1, 2, U64Max}

AccountingTransactions ==
  {[type |-> "Mint", minter |-> u, amount |-> a] : u \in Users, a \in Amounts}
    \cup {[type |-> "Burn", burner |-> u, amount |-> a] :
             u \in Users, a \in Amounts}
    \cup {[type |-> "Transfer", sender |-> u, receiver |-> v, amount |-> a] :
             u \in Users, v \in Users, a \in Amounts}

\* balances = AccountedCurrency::next_state(&balances, &t); an addition past
\* U64Max aborts the call or wraps, as the build has it
next_state_call(t) ==
  /\ Running
  /\ \E result \in IF Overflows(balances, t)
                    THEN {"panic", "wrapped"} ELSE {"ok"} :
       /\ balances' = IF result = "panic" THEN balances
                      ELSE next_state(balances, t)
       /\ ret' = [Ret("next_state", result, "none", None, <<>>)
                    EXCEPT !.input = Some(t)]
  /\ UNCHANGED <<consensus_engine, fork_choice, transaction_pool, storage,
                 fork_choice_rule, imported, apart>>

NextStateMachine == \E t \in AccountingTransactions : next_state_call(t)

SpecStateMachine == Init /\ [][NextStateMachine]_vars

\* ================================================================= claims

\* C1: import_block(b) returns true if and only if b meets the five import
\* conditions: its parent is the hash of a stored block p, its height is
\* p's height + 1, the consensus engine validates it against p's digest,
\* replaying its body from the state stored for p gives its state_root, and
\* the hash of its body is its extrinsics_root.
C1_ImportIffConditions ==
  ret.op = "import_block" /\ ret.result # "panic"
    => ((ret.result = "true") <=> ret.conditions)

\* C2: whenever import_block returns false, the block map, the state map,
\* both cursors, the fork-choice state and the pool are as before the call.
C2_FailedImportChangesNothing ==
  [][(ret'.op = "import_block" /\ ret'.result = "false")
       => UNCHANGED <<storage, fork_choice, transaction_pool>>]_vars

C2_Witness ==
  /\ ret.op = "import_block"
  /\ ret.result = "false"
  /\ Cardinality(DOMAIN storage.blocks_map) > 1
  /\ storage.state # DefaultState

\* C3: whenever import_block(b) returns true, get_last_block() is b and
\* current_state() is the state b's body leads to.
C3_ImportAdvancesCursors ==
  (ret.op = "import_block" /\ ret.result = "true")
    => /\ get_last_block(storage) = ret.block[2]
       /\ HashState(current_state(storage)) = ret.block[2].header.state_root

\* C4: every stored block other than genesis has a stored parent p with
\* parent = H(p.header) and height = p.height + 1.
C4_ParentLinkage ==
  \A b \in StoredBlocks :
    b # BlockGenesis(DefaultState)
      => \E p \in StoredBlocks :
           /\ b.header.parent = HashHeader(p.header)
           /\ b.header.height = p.header.height + 1

\* C5: a block import_block accepted is returned by get_block under its
\* hash, at once and ever after; no stored block is deleted or replaced;
\* get_block of a hash that was never stored is None.
C5_RoundTripPermanence ==
  /\ []((ret.op = "import_block" /\ ret.result = "true")
          => get_block(storage, HashBlock(ret.block[2])) = ret.block)
  /\ [](\A k \in DOMAIN storage.blocks_map :
          get_block(storage, HashBlock(storage.blocks_map[k]))
            = Some(storage.blocks_map[k]))
  /\ [](\A b \in ImportCandidates :
          b \notin StoredBlocks => get_block(storage, HashBlock(b)) = None)
  /\ [][\A b \in StoredBlocks :
          get_block(storage', HashBlock(b)) = Some(b)]_vars

C5_Witness ==
  /\ ret.op = "automatic"
  /\ ret.result = "Ok"
  /\ \E b \in StoredBlocks :
       /\ b.header.parent = HashHeader(BlockGenesis(DefaultState).header)
       /\ b.body # <<>>
       /\ get_block(storage, HashBlock(b)) = Some(b)

\* C6: every operation that commits a block calls import_hook exactly once,
\* with that block, and an operation that commits nothing calls no hook.
C6_HookOnEveryCommit ==
  /\ ret.block # None => ret.hooks = <<ret.block[2]>>
  /\ ret.block = None => ret.hooks = <<>>

\* C7: importing a valid block a second time leaves the block map, the state
\* map, the cursors and the fork-choice state as the first import left them.
C7_ImportIdempotent ==
  [][ret'.repeat => UNCHANGED <<storage, fork_choice>>]_vars

C7_Witness ==
  /\ ret.repeat
  /\ ret.result = "false"
  /\ storage.state # DefaultState

\* C8: an authoring call that returns Err (no parent block, no state for the
\* parent, or no seal) leaves the block map, the state map, the cursors, the
\* fork-choice state and the pool unchanged.
C8_AuthoringFailsAtomically ==
  [][(ret'.op \in {"manual", "automatic"} /\ ret'.result = "Err")
       => UNCHANGED <<storage, fork_choice, transaction_pool>>]_vars

\* C8 as amended: such a call leaves the block map, the state map, the
\* cursors and the fork-choice state unchanged; the pool is unchanged too,
\* except that an automatic call refused the seal has lost the transactions
\* it took, the first min(10, n) of the pool.
C8_AuthoringFailsAtomicallyButDrains ==
  [][(ret'.op \in {"manual", "automatic"} /\ ret'.result = "Err")
       => /\ UNCHANGED <<storage, fork_choice>>
          /\ IF ret'.op = "automatic" /\ ret'.reason = "seal"
             THEN LET n == Len(transaction_pool)
                      k == IF n < 10 THEN n ELSE 10
                  IN k >= 1 /\ transaction_pool' = SubSeq(transaction_pool, k + 1, n)
             ELSE UNCHANGED transaction_pool]_vars

C8_Witness ==
  /\ ret.op = "automatic"
  /\ ret.result = "Err"
  /\ ret.reason = "seal"
  /\ Cardinality(DOMAIN storage.blocks_map) > 1

\* C9: a successful automatic authoring on a pool of n >= 1 transactions
\* commits a block whose parent is best_block(), whose height is the
\* parent's + 1, whose body is the first min(10, n) transactions of the pool
\* in pool order, whose state_root is the hash of the parent's state with
\* the body applied left to right and whose extrinsics_root is the hash of
\* the body; it is then the last block and that state the current state.
C9_AutomaticBlock ==
  [][(ret'.op = "automatic" /\ ret'.result = "Ok" /\ transaction_pool # <<>>)
       => LET n == Len(transaction_pool)
              k == IF n < 10 THEN n ELSE 10
              body == SubSeq(transaction_pool, 1, k)
              best == Ghost_best_block(fork_choice)
              parent == storage.blocks_map[best[2]]
              post == Replay(storage.states_map[parent.header.state_root], body)
              b == ret'.block[2]
          IN /\ ret'.block # None
             /\ b.header.parent = best[2]
             /\ b.header.height = parent.header.height + 1
             /\ b.body = body
             /\ b.header.state_root = HashState(post)
             /\ b.header.extrinsics_root = HashBody(body)
             /\ get_block(storage', HashBlock(b)) = Some(b)
             /\ get_last_block(storage') = b
             /\ current_state(storage') = post]_vars

C9_Witness ==
  /\ ret.op = "automatic"
  /\ ret.result = "Ok"
  /\ ret.block # None
  /\ Len(ret.block[2].body) = 10
  /\ ret.block[2].body[10] = MintAlice
  /\ transaction_pool = <<BurnAlice>>
  /\ get_last_block(storage) = ret.block[2]

\* C10: after a successful automatic authoring on a pool of n transactions
\* the pool holds the n - min(10, n) transactions that were not taken, in
\* their order.
C10_PoolKeepsTheRest ==
  [][(ret'.op = "automatic" /\ ret'.result = "Ok")
       => LET n == Len(transaction_pool)
              k == IF n < 10 THEN n ELSE 10
          IN transaction_pool' = SubSeq(transaction_pool, k + 1, n)]_vars

\* C11: author_and_import_manual_block(txs, parent_hash) returns Ok if and
\* only if get_block(parent_hash) is Some, the state of that block's
\* state_root is retrievable and seal returns Some; on Ok exactly one block
\* is added, with header.parent = parent_hash, height = parent.height + 1,
\* body = txs, state_root = H(txs applied in order to the parent's state)
\* and extrinsics_root = H(txs), and that post-state is then retrievable by
\* its hash.
C11_ManualAuthoring ==
  [][ret'.op = "manual"
       => /\ (ret'.result = "Ok")
               <=> (ret'.conditions /\ ret'.reason # "seal")
          /\ ret'.result = "Ok"
               => LET txs == ret'.input[2][1]
                      parent_hash == ret'.input[2][2]
                      parent == get_block(storage, parent_hash)
                      parent_state ==
                        get_state(storage, parent[2].header.state_root)
                      b == ret'.block[2]
                      post == Replay(parent_state[2], txs)
                  IN /\ DOMAIN storage'.blocks_map
                          = (DOMAIN storage.blocks_map) \cup {HashBlock(b)}
                     /\ HashBlock(b) \notin DOMAIN storage.blocks_map
                     /\ get_block(storage', HashBlock(b)) = Some(b)
                     /\ b.header.parent = parent_hash
                     /\ b.header.height = parent[2].header.height + 1
                     /\ b.body = txs
                     /\ b.header.state_root = HashState(post)
                     /\ b.header.extrinsics_root = HashBody(txs)
                     /\ get_state(storage', HashState(post)) = Some(post)]_vars

\* C13: when the pool is empty and the best block and its state exist,
\* author_and_import_automatic_block returns Ok and changes nothing: no
\* block or state is added, and the cursors, the fork-choice state and the
\* pool are unchanged.
C13_EmptyPoolNoOp ==
  [][(/\ ret'.op = "automatic"
      /\ transaction_pool = <<>>
      /\ best_block(fork_choice_rule, fork_choice) # None
      /\ get_block(storage, best_block(fork_choice_rule, fork_choice)[2]) # None
      /\ get_state(storage,
                   get_block(storage,
                             best_block(fork_choice_rule, fork_choice)[2])[2]
                     .header.state_root) # None)
       => /\ ret'.result = "Ok"
          /\ ret'.block = None
          /\ UNCHANGED <<storage, fork_choice, transaction_pool>>]_vars

C13_Witness ==
  /\ ret.op = "automatic"
  /\ ret.result = "Ok"
  /\ ret.block = None
  /\ transaction_pool = <<>>
  /\ best_block(fork_choice_rule, fork_choice) # None
  /\ Cardinality(DOMAIN storage.blocks_map) > 1

\* C12: after every successful author_and_import_automatic_block that
\* committed a block, best_block() is the hash of the newly authored block,
\* for the Ghost, HeaviestChain and LongestChain rules, whatever was given to
\* the fork choice before.
C12_BestBlockIsTheAuthoredBlock ==
  [][(ret'.op = "automatic" /\ ret'.result = "Ok" /\ ret'.block # None)
       => best_block(fork_choice_rule, fork_choice')
            = Some(HashBlock(ret'.block[2]))]_vars

\* C14: in every state reachable from the empty balances map by Mint, Burn
\* and Transfer transitions (any users, any amounts including 0, any
\* receiver), every stored balance is strictly positive: no key maps to 0.
C14_ExistentialDeposit ==
  \A u \in DOMAIN balances : balances[u] > 0

\* C15: Burn{who, amount} with amount > 0 on a state where who is present
\* returns the state without who, all else unchanged, when balances[who] <=
\* amount, and the state with balances[who] reduced by amount otherwise.
C15_Burn ==
  [][(/\ ret'.op = "next_state"
      /\ ret'.input[2].type = "Burn"
      /\ ret'.input[2].amount > 0
      /\ ret'.input[2].burner \in DOMAIN balances)
       => LET who == ret'.input[2].burner
              amount == ret'.input[2].amount
          IN balances' = IF balances[who] <= amount
                         THEN Del(balances, who)
                         ELSE Put(balances, who, balances[who] - amount)]_vars

\* C16: every Transfer{from, to, amount} with from present and
\* balances[from] >= amount returns a state whose balances sum to what they
\* summed to before, also when the sender's entry is removed, when the
\* receiver is created and when from = to.
C16_TransferConserves ==
  [][(/\ ret'.op = "next_state"
      /\ ret'.input[2].type = "Transfer"
      /\ ret'.input[2].sender \in DOMAIN balances
      /\ balances[ret'.input[2].sender] >= ret'.input[2].amount)
       => /\ ret'.result # "panic"
          /\ SumBalances(balances') = SumBalances(balances)]_vars

\* C17: next_state(s, t) = s when t is a Mint of amount 0, a Burn with an
\* absent burner or of amount 0, or a Transfer with an absent sender or with
\* balances[sender] < amount.
C17_InvalidTransitionsAreNoOps ==
  [][(/\ ret'.op = "next_state"
      /\ LET t == ret'.input[2]
         IN \/ t.type = "Mint" /\ t.amount = 0
            \/ t.type = "Burn" /\ (t.burner \notin DOMAIN balances \/ t.amount = 0)
            \/ t.type = "Transfer"
                 /\ (t.sender \notin DOMAIN balances
                       \/ balances[t.sender] < t.amount))
       => /\ ret'.result = "ok"
          /\ balances' = balances]_vars

C17_Witness ==
  /\ ret.op = "next_state"
  /\ ret.result = "ok"
  /\ ret.input[2].type = "Mint"
  /\ ret.input[2].amount = 0
  /\ ret.input[2].minter \notin DOMAIN balances
  /\ DOMAIN balances # {}

\* C18: LongestChain, after import_hook has been called on a non-empty
\* sequence of blocks (also one whose blocks are all at height 0): best_block
\* is the hash of the imported block of the greatest height, and of the one
\* imported first among several of that height.
C18_LongestChain ==
  (fork_choice_rule = "LongestChain" /\ imported # <<>>)
    => LET at == 1..Len(imported)
           highest == CHOOSE i \in at :
                        /\ \A j \in at : imported[j].header.height
                                            <= imported[i].header.height
                        /\ \A j \in 1..(i - 1) :
                             imported[j].header.height
                               < imported[i].header.height
       IN best_block(fork_choice_rule, fork_choice)
            = Some(HashBlock(imported[highest]))

\* C19: HeaviestChain, after any sequence of import_hook calls: every current
\* tip is tracked with the cumulative weight of its chain (a root weighs its
\* digest, a child of a tracked tip the tip's weight plus its digest), also
\* when two chains have the same weight, and best_block is a tip of maximum
\* weight.
C19_HeaviestChain ==
  fork_choice_rule = "HeaviestChain"
    => LET after[n \in 0..Len(imported)] ==
             IF n = 0 THEN {}
             ELSE LET block == imported[n]
                      digest == block.header.consensus_digest
                      on == {e \in after[n - 1] : e.tip = block.header.parent}
                  IN IF on # {}
                     THEN LET e == CHOOSE x \in on :
                                     \A y \in on : y.weight <= x.weight
                          IN (after[n - 1] \ {e})
                               \cup {[tip |-> HashBlock(block),
                                      weight |-> e.weight + digest]}
                     ELSE after[n - 1]
                            \cup {[tip |-> HashBlock(block), weight |-> digest]}
           tips == after[Len(imported)]
       IN /\ \A e \in tips :
               /\ e.weight \in DOMAIN fork_choice
               /\ fork_choice[e.weight] = e.tip
          /\ tips # {}
               => \E e \in tips :
                    /\ \A y \in tips : y.weight <= e.weight
                    /\ best_block(fork_choice_rule, fork_choice) = Some(e.tip)

\* C20: Ghost, after any sequence of import_hook calls: every known chain is
\* kept, chains of equal weight too (a chain is its blocks, not its weight),
\* and best_block is the last block of a chain with the largest sum of
\* consensus digests.
C20_Ghost ==
  fork_choice_rule = "Ghost"
    => LET Work(c) ==
             LET sum[i \in 0..Len(c)] ==
                   IF i = 0 THEN 0
                   ELSE sum[i - 1] + c[i].header.consensus_digest
             IN sum[Len(c)]
           after[n \in 0..Len(imported)] ==
             IF n = 0 THEN {}
             ELSE LET block == imported[n]
                      parent == block.header.parent
                      ends == {c \in after[n - 1] : HashBlock(c[Len(c)]) = parent}
                      holds == {c \in after[n - 1] :
                                  \E i \in 1..Len(c) : HashBlock(c[i]) = parent}
                  IN IF ends # {}
                     THEN LET c == CHOOSE x \in ends :
                                     \A y \in ends : Work(y) <= Work(x)
                          IN (after[n - 1] \ {c}) \cup {Append(c, block)}
                     ELSE IF holds # {}
                     THEN LET c == CHOOSE x \in holds :
                                     \A y \in holds : Work(y) <= Work(x)
                              i == CHOOSE j \in 1..Len(c) :
                                     HashBlock(c[j]) = parent
                          IN after[n - 1] \cup {Append(SubSeq(c, 1, i), block)}
                     ELSE after[n - 1] \cup {<<block>>}
           chains == after[Len(imported)]
       IN /\ \A c \in chains :
               \E k \in DOMAIN fork_choice :
                 /\ k = Work(c)
                 /\ fork_choice[k] = [i \in 1..Len(c) |-> HashBlock(c[i])]
          /\ chains # {}
               => \E c \in chains :
                    /\ \A y \in chains : Work(y) <= Work(c)
                    /\ best_block(fork_choice_rule, fork_choice)
                         = Some(HashBlock(c[Len(c)]))

\* C21: HeaviestChain and Ghost: across every import_hook call that returns,
\* the weight of the tip best_block selects (the largest tracked weight) does
\* not decrease.
C21_WeightMonotonicity ==
  [][(/\ fork_choice_rule \in {"HeaviestChain", "Ghost"}
      /\ ret'.op = "import_hook"
      /\ ret'.result # "panic"
      /\ DOMAIN fork_choice # {})
       => MaxKey(fork_choice') >= MaxKey(fork_choice)]_vars

\* C22: for every fork-choice state reached by import_hook calls and every
\* block, root or not, import_hook(block) called twice in a row leaves the
\* bookkeeping, and so best_block, as one call leaves them.
C22_ImportHookIdempotent ==
  \A block \in HookBlocks :
    LET once == import_hook(fork_choice_rule, fork_choice, block)
        twice == import_hook(fork_choice_rule, once, block)
    IN /\ twice = once
       /\ best_block(fork_choice_rule, twice)
            = best_block(fork_choice_rule, once)

\* C23: MostAliceSigs, after any sequence of import_hook calls: a block
\* imported onto a tracked tip takes that tip's place, with the chain's count
\* one higher iff the block's digest is Alice and unchanged otherwise, and
\* best_block is the current tip of a chain with the most blocks by Alice.
C23_MostAliceSigs ==
  fork_choice_rule = "MostAliceSigs"
    => LET after[n \in 0..Len(imported)] ==
             IF n = 0 THEN {}
             ELSE LET block == imported[n]
                      sig == IF block.header.consensus_digest = "Alice"
                             THEN 1 ELSE 0
                      on == {e \in after[n - 1] : e.tip = block.header.parent}
                  IN IF on # {}
                     THEN LET e == CHOOSE x \in on :
                                     \A y \in on : y.sigs <= x.sigs
                          IN (after[n - 1] \ {e})
                               \cup {[tip |-> HashBlock(block),
                                      sigs |-> e.sigs + sig]}
                     ELSE after[n - 1]
                            \cup {[tip |-> HashBlock(block), sigs |-> sig]}
           tips == after[Len(imported)]
       IN tips # {}
            => \E e \in tips :
                 /\ \A y \in tips : y.sigs <= e.sigs
                 /\ best_block(fork_choice_rule, fork_choice) = Some(e.tip)

C25_PoolRejection ==
  [][LET t == ret'.input[2]
         Rejects(x) ==
           \/ pool.type = "PriorityPool"
                /\ prioritizer(x) < PoolMinimumPriority
           \/ pool.type = "CensoringPool" /\ might_be_terrorist(x)
     IN /\ ret'.op = "try_insert"
             => /\ ret'.result = "false" <=> Rejects(t)
                /\ ret'.result = "false" => pool' = pool
                /\ ret'.result = "true"
                     => Len(pool'.queue) = Len(pool.queue) + 1
        /\ \A i \in 1..Len(pool'.queue) : ~Rejects(pool'.queue[i])]_vars

\* a CensoringPool that holds a transaction and has just refused a flagged one
C25_Witness ==
  /\ pool.type = "CensoringPool"
  /\ pool.queue # <<>>
  /\ ret.op = "try_insert"
  /\ ret.result = "false"
  /\ might_be_terrorist(ret.input[2])

\* C26: for every engine, whenever seal(parent_digest, partial) returns
\* Some(h) (PoaRoundRobinByHeight: at a height of 1 or more), h is partial in
\* parent, height, state_root and extrinsics_root, and validate(parent_digest,
\* h) is true.
C26_SealImpliesValidate ==
  (/\ consensus.op = "seal"
   /\ consensus.outcome # None
   /\ consensus.outcome # Panic
   /\ consensus.header.height >= 1)
    => LET h == consensus.outcome[2]
           partial == consensus.header
       IN /\ h.parent = partial.parent
          /\ h.height = partial.height
          /\ h.state_root = partial.state_root
          /\ h.extrinsics_root = partial.extrinsics_root
          /\ Consensus_validate(consensus.engine, consensus.parent_digest, h)
               = {"true"}

\* C27: for a Forked engine and every header and parent digest whose digests
\* convert to the digest type of the engine that governs the header's height,
\* validate is Before's validate below fork_height and After's validate from
\* fork_height on.
C27_ForkedBoundary ==
  (consensus.op = "validate" /\ consensus.engine.type = "Forked")
    => LET e == consensus.engine
           header == consensus.header
           governing == IF header.height < e.fork_height
                        THEN e.before ELSE e.after
           T == DigestType(governing)
           parent_digest == TryFrom(T, e.D, consensus.parent_digest)
           digest == TryFrom(T, e.D, header.consensus_digest)
       IN (parent_digest # None /\ digest # None)
            => consensus.outcome
                 \in Consensus_validate(governing, parent_digest[2],
                                        WithDigest(header, digest[2]))

\* C28: pow_to_poa with fork height F: a header at height F - 1 with a
\* PoW-tagged digest that meets the threshold validates; a header at height F
\* on a parent with a PoW-tagged digest validates iff it carries the
\* PoA-tagged digest of the authority the PoA engine accepts; a header whose
\* tag is not that of the engine active at its height never validates.
C28_PowToPoa ==
  (/\ consensus.op = "validate"
   /\ consensus.engine = pow_to_poa(ForkHeight, <<"Alice", "Bob">>))
    => LET header == consensus.header
           digest == header.consensus_digest
           poa == consensus.engine.after
       IN /\ (/\ header.height = ForkHeight - 1
              /\ consensus.parent_digest[1] = "Pow"
              /\ digest[1] = "Pow"
              /\ PowValidate(WithDigest(header, digest[2])))
               => consensus.outcome = "true"
          /\ (header.height = ForkHeight /\ consensus.parent_digest[1] = "Pow")
               => (consensus.outcome = "true"
                     <=> /\ digest[1] = "Poa"
                         /\ Consensus_validate(poa, "Alice",
                                               WithDigest(header, digest[2]))
                              = {"true"})
          /\ digest[1] # (IF header.height < ForkHeight THEN "Pow" ELSE "Poa")
               => consensus.outcome = "false"

\* C29: PoaRoundRobinByHeight with N >= 1 authorities: at a height h >= 1
\* validate is true iff the digest is authorities[(h - 1) mod N], whatever
\* the parent digest, and seal stamps that authority; and validate and seal
\* return a value, they do not abort, at every height, 0 included.
C29_RoundRobinByHeight ==
  (consensus.op # "new" /\ consensus.engine.type = "PoaRoundRobinByHeight")
    => LET authorities == consensus.engine.authorities
           header == consensus.header
           scheduled == authorities[((header.height - 1) % Len(authorities)) + 1]
       IN /\ consensus.op = "validate" => consensus.outcome # "panic"
          /\ consensus.op = "seal" => consensus.outcome # Panic
          /\ (consensus.op = "validate" /\ header.height >= 1)
               => (consensus.outcome = "true"
                     <=> header.consensus_digest = scheduled)
          /\ (consensus.op = "seal" /\ header.height >= 1)
               => consensus.outcome = Some(WithDigest(header, scheduled))

\* C30: PoaRoundRobinBySlot: validate(parent, h) is true iff h.slot >
\* parent.slot and h's signer is the authority after parent's signer in the
\* list, cyclically; seal sets slot = parent.slot + 1 and the signer to that
\* next authority.
C30_RoundRobinBySlot ==
  (consensus.op # "new" /\ consensus.engine.type = "PoaRoundRobinBySlot")
    => LET authorities == consensus.engine.authorities
           parent == consensus.parent_digest
           h == consensus.header.consensus_digest
           Follows(a, b) ==
             \E i \in 1..Len(authorities) :
               /\ authorities[i] = a
               /\ authorities[(i % Len(authorities)) + 1] = b
       IN /\ consensus.op = "validate"
               => (consensus.outcome = "true"
                     <=> h.slot > parent.slot
                         /\ Follows(parent.signature, h.signature))
          /\ consensus.op = "seal"
               => /\ consensus.outcome \notin {None, Panic}
                  /\ consensus.outcome[2].consensus_digest.slot
                       = parent.slot + 1
                  /\ Follows(parent.signature,
                             consensus.outcome[2].consensus_digest.signature)

\* C31: for EvenOnly(inner), every parent digest p and header h:
\* validate(p, h) is true only if h.state_root is even and inner.validate(p, h)
\* is true, and it is true whenever the state root is even and
\* inner.validate(p, h) is true; seal(p, h) is None when h.state_root is odd
\* and is inner.seal(p, h) when it is even.
C31_EvenOnly ==
  consensus.engine.type = "EvenOnly"
    => LET inner == consensus.engine.inner
           p == consensus.parent_digest
           h == consensus.header
           even == h.state_root[2] % 2 = 0
       IN /\ (consensus.op = "validate" /\ consensus.outcome = "true")
               => (even /\ "true" \in Consensus_validate(inner, p, h))
          /\ (/\ consensus.op = "validate"
              /\ even
              /\ Consensus_validate(inner, p, h) = {"true"})
               => consensus.outcome = "true"
          /\ (consensus.op = "seal" /\ ~even) => consensus.outcome = None
          /\ (consensus.op = "seal" /\ even)
               => consensus.outcome \in Consensus_seal(inner, p, h)

\* EvenOnly has validated a header with an even state root that its inner
\* engine accepts
C31_Witness ==
  /\ consensus.engine.type = "EvenOnly"
  /\ consensus.op = "validate"
  /\ consensus.header.state_root[2] % 2 = 0
  /\ consensus.outcome = "true"

\* C32: after a client is constructed with a genesis state g, storage holds
\* the height-0 genesis block whose state_root is H(g): get_last_block()
\* returns it and get_block of its hash returns it; current_state() is g, and
\* g is retrievable under H(g).
C32_GenesisSeeding ==
  (ret.op = "new" /\ ret.input # None)
    => LET g == ret.input[2]
           genesis == get_last_block(storage)
       IN /\ genesis.header.height = 0
          /\ genesis.header.state_root = HashState(g)
          /\ genesis = BlockGenesis(g)
          /\ get_block(storage, HashBlock(genesis)) = Some(genesis)
          /\ current_state(storage) = g
          /\ get_state(storage, HashState(g)) = Some(g)

\* C33: when author_and_import_automatic_block has drained k >= 1
\* transactions and seal returns None, the call returns Err, the k drained
\* transactions, the first k of the pool, are gone from the pool and the rest
\* is left as it was, and storage (blocks, states, both cursors) and the
\* fork-choice state are unchanged.
C33_RefusedSealDrains ==
  [][(ret'.op = "automatic" /\ ret'.reason = "seal")
       => LET n == Len(transaction_pool)
              k == IF n < AuthorCap THEN n ELSE AuthorCap
          IN /\ k >= 1
             /\ ret'.result = "Err"
             /\ ret'.block = None
             /\ Len(transaction_pool') = n - k
             /\ transaction_pool' = SubSeq(transaction_pool, k + 1, n)
             /\ storage' = storage
             /\ fork_choice' = fork_choice]_vars

\* an automatic call on a pool of more than AuthorCap transactions has been
\* refused the seal, and one transaction is left in the pool
C33_Witness ==
  /\ ret.op = "automatic"
  /\ ret.result = "Err"
  /\ ret.reason = "seal"
  /\ Len(transaction_pool) = 1
  /\ Cardinality(DOMAIN storage.blocks_map) > 1

\* C34: Ghost.import_hook(block) extends a tracked chain when that chain's
\* last hash is block.parent, the chain then standing under its weight plus
\* the block's digest; when block.parent is the last hash of no tracked chain
\* (be it an interior hash of one), the block starts a new chain that holds
\* this block alone, under a weight equal to the block's digest.
C34_GhostExtendsAtTheTip ==
  [][(/\ fork_choice_rule = "Ghost"
      /\ ret'.op = "import_hook"
      /\ ret'.result # "panic")
       => LET block == ret'.hooks[1]
              digest == block.header.consensus_digest
              tips == {k \in DOMAIN fork_choice :
                         fork_choice[k][Len(fork_choice[k])]
                           = block.header.parent}
          IN IF tips # {}
             THEN \E k \in tips :
                    /\ (k + digest) \in DOMAIN fork_choice'
                    /\ fork_choice'[k + digest]
                         = Append(fork_choice[k], HashBlock(block))
             ELSE /\ digest \in DOMAIN fork_choice'
                  /\ fork_choice'[digest] = <<HashBlock(block)>>]_vars

\* C35: remove(t) on a SimplePool, a PriorityPool or a CensoringPool: when t
\* is not in the pool (an empty pool included) the pool is unchanged; when it
\* is, afterwards contains(t) is false, size is less by the number of entries
\* that were equal to t, and the other entries are all there in the order
\* they were in.
C35_PoolRemove ==
  [][ret'.op = "remove"
       => LET t == ret'.input[2]
              q == pool.queue
              after == pool'.queue
              gone == {i \in 1..Len(q) : q[i] = t}
              kept == (1..Len(q)) \ gone
              nth(n) == CHOOSE i \in kept :
                          Cardinality({j \in kept : j <= i}) = n
          IN /\ pool'.type = pool.type
             /\ gone = {} => after = q
             /\ gone # {}
                  => /\ \A i \in 1..Len(after) : after[i] # t
                     /\ Len(after) = Len(q) - Cardinality(gone)
                     /\ \A n \in 1..Len(after) : after[n] = q[nth(n)]]_vars

\* remove has taken a transaction that was queued twice out of a pool and
\* has left another one
C35_Witness ==
  /\ ret.op = "remove"
  /\ ret.conditions
  /\ ret.input = Some(MintAlice)
  /\ pool.queue = <<MintBob>>

\* C36: AlternatingPowPoa: validate(parent_digest, h) is true only if h's
\* digest is of the other kind than parent_digest and the engine of that kind
\* accepts it (the PoA engine a PoA digest after a PoW parent, the PoW engine
\* a PoW digest after a PoA parent); seal always returns a header, whose
\* digest is of the other kind than parent_digest; and neither validate nor
\* seal aborts, a header digest of the parent's kind making validate false.
C36_AlternatingKinds ==
  consensus.engine.type = "AlternatingPowPoa"
    => LET e == consensus.engine
           h == consensus.header
           parent_kind == consensus.parent_digest[1]
           other_kind == IF parent_kind = "Pow" THEN "Poa" ELSE "Pow"
           inner == WithDigest(h, h.consensus_digest[2])
       IN /\ (consensus.op = "validate" /\ consensus.outcome = "true")
               => /\ h.consensus_digest[1] = other_kind
                  /\ IF other_kind = "Poa"
                     THEN "true" \in Consensus_validate(e.poa, "Alice", inner)
                     ELSE "true" \in Consensus_validate(e.pow, 0, inner)
          /\ consensus.op = "validate"
               => /\ consensus.outcome # "panic"
                  /\ h.consensus_digest[1] = parent_kind
                       => consensus.outcome = "false"
          /\ consensus.op = "seal"
               => /\ consensus.outcome # Panic
                  /\ consensus.outcome # None
                  /\ consensus.outcome[2].consensus_digest[1] = other_kind

\* AlternatingPowPoa has sealed a header that carried a PoW digest on a parent
\* with a PoW digest
C36_Witness ==
  /\ consensus.engine.type = "AlternatingPowPoa"
  /\ consensus.op = "seal"
  /\ consensus.parent_digest[1] = "Pow"
  /\ consensus.header.consensus_digest[1] = "Pow"
  /\ consensus.outcome # None
  /\ consensus.outcome # Panic
  /\ consensus.outcome[2].consensus_digest[1] = "Poa"

\* C37: in a chain that starts at a genesis header with the default digest
\* and is extended block by block with AlternatingPowPoa.seal, every block at
\* an odd height is PoW-sealed and every block at an even height of 2 or more
\* is PoA-sealed.
C37_OddPowEvenPoa ==
  (consensus.engine.type = "AlternatingPowPoa" /\ consensus.header.height >= 1)
    => consensus.header.consensus_digest[1]
         = IF consensus.header.height % 2 = 1 THEN "Pow" ELSE "Poa"

\* C40: for a Forked engine whose Before and After digest types differ
\* (pow_to_poa), along a chain that starts at genesis: seal returns Some for
\* the child of every sealed header at every height, and the header sealed at
\* fork_height, on a parent sealed by Before, is sealed by After.
C40_ForkedChainCrossesTheFork ==
  (/\ consensus.engine.type = "Forked"
   /\ DigestType(consensus.engine.before) # DigestType(consensus.engine.after)
   /\ consensus.op = "seal")
    => /\ consensus.outcome # None
       /\ consensus.outcome # Panic
       /\ consensus.header.height >= consensus.engine.fork_height
            => consensus.header.consensus_digest[1] = "Poa"

\* C38: next_state is total over 64-bit balances: for every state and
\* transition, a Mint or a Transfer credit whose sum passes 2^64 - 1 included,
\* the call returns (it never aborts) and every balance of the state it
\* returns is a positive 64-bit value.
C38_NextStateTotal ==
  ret.op = "next_state"
    => /\ ret.result # "panic"
       /\ \A u \in DOMAIN balances :
            balances[u] >= 1 /\ balances[u] <= U64Max

\* C39: after any sequence of import_block, author_and_import_manual_block
\* and author_and_import_automatic_block calls, successful or not, on a
\* freshly constructed client, H(current_state()) is
\* get_last_block().header.state_root.
C39_CursorConsistency ==
  HashState(current_state(storage)) = get_last_block(storage).header.state_root

====
